---- MODULE Spec2Model ----
(***************************************************************************)
(* vopono: running an application inside a network namespace whose only    *)
(* route is a VPN tunnel.  The module models main() and exec() of          *)
(* src/main.rs and the provider logic of src/vpn.rs.  The collaborators    *)
(* whose code is in other modules of the crate (netns, util, sysctl,       *)
(* application_wrapper) are modelled from the specification's description  *)
(* of them.                                                                *)
(***************************************************************************)
EXTENDS Naturals, Integers, Sequences, FiniteSets, TLC

(***************************************************************************)
(* Bounds of the model.                                                    *)
(***************************************************************************)
\* number of vopono invocations (one pid each) that may run concurrently
NumProcs == 2
\* how many of them may be killed with SIGKILL
MaxKills == 1

Procs == 1..NumProcs

(***************************************************************************)
(* vpn.rs: providers and protocols.                                        *)
(***************************************************************************)
NoneVal == "none"

\* an absent file name or server name (these are sequences of characters)
NoSeq == <<>>

VpnProvider == {"PrivateInternetAccess", "Mullvad", "TigerVpn", "Custom"}

Protocol == {"OpenVpn", "Wireguard"}

alias(provider) ==
    CASE provider = "PrivateInternetAccess" -> "pia"
      [] provider = "Mullvad" -> "mv"
      [] provider = "TigerVpn" -> "tig"
      [] provider = "Custom" -> "cus"

Ok(v) == [ok |-> TRUE, val |-> v]

Err(e) == [ok |-> FALSE, val |-> e]

\* a plausible slip: the Wireguard arm answers Ok for every provider
get_protocol_AllWireguard(provider, protocol) ==
    IF protocol = NoneVal
    THEN (IF provider \in {"Mullvad", "Custom"} THEN Ok("Wireguard") ELSE Ok("OpenVpn"))
    ELSE Ok(protocol)

get_protocol(provider, protocol) ==
    CASE protocol = "Wireguard" ->
            (CASE provider = "Mullvad" -> Ok("Wireguard")
               [] provider = "TigerVpn" -> Err("Unsupported")
               [] provider = "PrivateInternetAccess" -> Err("Unsupported")
               [] provider = "Custom" -> Ok("Wireguard"))
      [] protocol = "OpenVpn" -> Ok("OpenVpn")
      [] protocol = NoneVal ->
            (CASE provider = "Mullvad" -> Ok("Wireguard")
               [] provider = "TigerVpn" -> Ok("OpenVpn")
               [] provider = "PrivateInternetAccess" -> Ok("OpenVpn")
               [] provider = "Custom" -> Ok("Wireguard"))

(***************************************************************************)
(* vpn.rs: the server list and find_host_from_alias.  Names and aliases    *)
(* are sequences of one-character strings; an Option is the empty set or   *)
(* a set of one value.                                                     *)
(***************************************************************************)
\* char::to_lowercase on the letters of the inputs
LowerChar(c) ==
    CASE c = "U" -> "u"
      [] c = "S" -> "s"
      [] OTHER -> c

to_lowercase(s) == [i \in 1..Len(s) |-> LowerChar(s[i])]

\* str::replace("_", "-")
replace_underscores(s) == [i \in 1..Len(s) |-> IF s[i] = "_" THEN "-" ELSE s[i]]

starts_with(s, prefix) ==
    /\ Len(prefix) <= Len(s)
    /\ SubSeq(s, 1, Len(prefix)) = prefix

\* a plausible slip: the rule for names written with hyphens is left out
server_matches_NoHyphenRule(alias_lc, x) ==
    \/ starts_with(x.name, alias_lc)
    \/ starts_with(x.alias, alias_lc)

\* the closure of filter(), lines 135-139
server_matches(alias_lc, x) ==
    \/ starts_with(x.name, alias_lc)
    \/ starts_with(x.alias, alias_lc)
    \/ starts_with(replace_underscores(x.name), alias_lc)

DefaultPort == 1194

\* a plausible slip: the defaults are taken although the entry has a port
\* and a protocol
chosen_server_Defaults(record) ==
    Ok([host |-> record.host, port |-> DefaultPort, alias |-> record.alias,
        protocol |-> "UDP"])

\* lines 152-172: the tuple returned for the chosen entry
chosen_server(record) ==
    Ok([host |-> record.host,
        port |-> IF record.port = {} THEN DefaultPort
                 ELSE CHOOSE x \in record.port : TRUE,
        alias |-> record.alias,
        protocol |-> IF record.protocol = {} THEN "UDP"
                     ELSE CHOOSE x \in record.protocol : TRUE])

\* the results find_host_from_alias can return: choose() picks any of the
\* entries that passed the filter
find_host_from_alias(alias_arg, serverlist) ==
    LET alias_lc == to_lowercase(alias_arg)
        record == {i \in 1..Len(serverlist) : server_matches(alias_lc, serverlist[i])}
    IN  IF record = {}
        THEN {Err("NoMatchingServer")}
        ELSE {chosen_server(serverlist[i]) : i \in record}

(***************************************************************************)
(* vpn.rs: get_auth and the auth file.  A file is the empty set (no file)  *)
(* or the set of its contents, a sequence of one-character strings.        *)
(***************************************************************************)
DecimalDigits == {"0", "1", "2", "3", "4", "5", "6", "7", "8", "9"}

Whitespace == {" ", "\t", "\n"}

\* the length a Mullvad account number must have
AccountLen == 16

\* a plausible slip: only whitespace is removed
retain_NonWhitespace(s) == SelectSeq(s, LAMBDA c : c \notin Whitespace)

\* line 208: username.retain(|c| !c.is_whitespace() && c.is_digit(10))
retain_digits(s) == SelectSeq(s, LAMBDA c : c \notin Whitespace /\ c \in DecimalDigits)

\* a plausible slip: the newline between username and password is missing
auth_file_contents_OneLine(username, password) == username \o password \o <<"\n">>

\* line 228: write!(writefile, "{}\n{}\n", username, password)
auth_file_contents(username, password) ==
    username \o <<"\n">> \o password \o <<"\n">>

\* BufRead::lines(): the text between newlines; a last line needs no newline
RECURSIVE Lines(_)
Lines(s) ==
    IF s = <<>> THEN <<>>
    ELSE LET nl == {i \in 1..Len(s) : s[i] = "\n"}
         IN  IF nl = {} THEN <<s>>
             ELSE LET i == CHOOSE i \in nl : \A j \in nl : i <= j
                  IN  <<SubSeq(s, 1, i - 1)>> \o Lines(SubSeq(s, i + 1, Len(s)))

\* a plausible slip: the length of the account number is not checked
get_auth_NoLengthCheck(provider, file, answer, password, io) ==
    IF file # {}
    THEN LET lines == Lines(CHOOSE c \in file : TRUE)
         IN  [out |-> IF Len(lines) = 0 THEN Err("No username")
                      ELSE IF Len(lines) = 1 THEN Err("No password")
                      ELSE Ok(NoneVal),
              file |-> file, prompts |-> 0]
    ELSE IF io = "prompt_err"
    THEN [out |-> Err("Prompt"), file |-> file, prompts |-> 1]
    ELSE LET username == IF provider = "Mullvad" THEN retain_digits(answer) ELSE answer
             pw == IF provider = "Mullvad" THEN <<"m">> ELSE password
         IN  IF io = "create_err"
             THEN [out |-> Err("Create"), file |-> file, prompts |-> 1]
             ELSE [out |-> Ok(NoneVal), file |-> {auth_file_contents(username, pw)},
                   prompts |-> 1]

\* get_auth, lines 179-233: the result, the auth file afterwards and the
\* number of times the user was asked for a username.  answer and password
\* are what the prompts return; io says whether a prompt or File::create
\* fails
get_auth(provider, file, answer, password, io) ==
    IF file # {}
    THEN LET lines == Lines(CHOOSE c \in file : TRUE)
         IN  [out |-> IF Len(lines) = 0 THEN Err("No username")
                      ELSE IF Len(lines) = 1 THEN Err("No password")
                      ELSE Ok(NoneVal),
              file |-> file, prompts |-> 0]
    ELSE IF io = "prompt_err"
    THEN [out |-> Err("Prompt"), file |-> file, prompts |-> 1]
    ELSE LET username == IF provider = "Mullvad" THEN retain_digits(answer) ELSE answer
             pw == IF provider = "Mullvad" THEN <<"m">> ELSE password
         IN  IF provider = "Mullvad" /\ Len(username) # AccountLen
             THEN [out |-> Err("CredentialsInvalid"), file |-> file, prompts |-> 1]
             ELSE IF io = "create_err"
             THEN [out |-> Err("Create"), file |-> file, prompts |-> 1]
             ELSE [out |-> Ok(NoneVal), file |-> {auth_file_contents(username, pw)},
                   prompts |-> 1]

(***************************************************************************)
(* main.rs, exec(): arguments, provider and server name, namespace name.   *)
(* File names and server names are sequences of one-character strings.     *)
(***************************************************************************)
RECURSIVE FilterChars(_)
FilterChars(s) ==
    IF s = <<>> THEN <<>>
    ELSE IF Head(s) = " " \/ Head(s) = "-"
         THEN FilterChars(Tail(s))
         ELSE <<Head(s)>> \o FilterChars(Tail(s))

\* a plausible slip: a custom config without --protocol is not refused, and
\* get_protocol's default for Custom is taken
ExecResolve_NoProtocolCheck(command) ==
    IF command.custom_config # NoSeq
    THEN LET name == FilterChars(command.custom_config)
             r == get_protocol("Custom", command.protocol)
         IN  IF Len(name) < 4
             THEN Err("Panic")
             ELSE Ok([provider |-> "Custom", server_name |-> SubSeq(name, 1, 4),
                      protocol |-> r.val])
    ELSE Err("ArgNoConfig")

\* the result of lines 91-119: Ok([provider, server_name, protocol]), an
\* error of bail!/get_protocol, or a panic of expect()/the [0..4] slice
ExecResolve(command) ==
    IF command.custom_config # NoSeq
    THEN IF command.protocol = NoneVal
         THEN Err("ArgNoProtocol")
         ELSE LET name == FilterChars(command.custom_config)
              IN  IF Len(name) < 4
                  THEN Err("Panic")
                  ELSE LET r == get_protocol("Custom", command.protocol)
                       IN  IF r.ok
                           THEN Ok([provider |-> "Custom",
                                    server_name |-> SubSeq(name, 1, 4),
                                    protocol |-> r.val])
                           ELSE r
    ELSE IF command.vpn_provider = NoneVal
         THEN Err("Panic")
         ELSE IF command.vpn_provider = "Custom"
              THEN Err("ArgNoConfig")
              ELSE IF command.server = NoSeq
                   THEN Err("Panic")
                   ELSE LET r == get_protocol(command.vpn_provider, command.protocol)
                        IN  IF r.ok
                            THEN Ok([provider |-> command.vpn_provider,
                                     server_name |-> command.server,
                                     protocol |-> r.val])
                            ELSE r

ns_name_of(provider, server_name) == <<"vopono", alias(provider)>> \o server_name

(***************************************************************************)
(* Inputs: the command lines an invocation may be started with.            *)
(***************************************************************************)
Servers == {<<"s", "e">>}

\* "my vpn.ovpn" and "a-b": the second has fewer than 4 characters left
\* once spaces and hyphens are removed
ConfigFiles == {<<"m", "y", " ", "v", "p", "n", ".", "o", "v", "p", "n">>,
                <<"a", "-", "b">>}

ListCommand ==
    [cmd |-> "list", custom_config |-> NoSeq, vpn_provider |-> NoneVal,
     server |-> NoSeq, protocol |-> NoneVal]

ExecCommands ==
    [cmd : {"exec"}, custom_config : ConfigFiles, vpn_provider : {NoneVal},
     server : {NoSeq}, protocol : Protocol \cup {NoneVal}]
    \cup
    [cmd : {"exec"}, custom_config : {NoSeq},
     vpn_provider : VpnProvider \cup {NoneVal},
     server : Servers \cup {NoSeq}, protocol : Protocol \cup {NoneVal}]

Commands == ExecCommands \cup {ListCommand}

(***************************************************************************)
(* State.                                                                  *)
(*   proc     each invocation: where it is in main()/exec() and exec()'s   *)
(*            local variables                                              *)
(*   netns    the kernel network namespaces that exist                     *)
(*   res      <<namespace, guard>>: the scoped resources installed         *)
(*   subnets  <<namespace, third octet>>: the assigned target subnets      *)
(*   locks    <<namespace, pid>>: the lockfiles                            *)
(*   ipfwd    net.ipv4.ip_forward                                          *)
(*   kills    number of SIGKILLs delivered                                 *)
(*   call     the last call of a pure function (specification SpecFn)      *)
(***************************************************************************)
VARIABLES proc, netns, res, subnets, locks, ipfwd, kills, call

vars == <<proc, netns, res, subnets, locks, ipfwd, kills, call>>

Guards == {"loopback", "veth", "routing", "iptables", "dns", "tunnel"}

\* the setup calls of exec(), in the order the specification gives them
SetupOrder == <<"loopback", "veth", "routing", "iptables", "sysctl", "dns", "tunnel">>

NoCommand ==
    [cmd |-> NoneVal, custom_config |-> NoSeq, vpn_provider |-> NoneVal,
     server |-> NoSeq, protocol |-> NoneVal]

NoCall == [fn |-> NoneVal]

\* exec()'s locals before the first assignment; steps (the setup calls made)
\* and dead_at_start (the pids that were killed before this invocation
\* started) are history the code does not keep.  synced and assets say
\* whether synch() was called and what the provider's config directory holds
\* afterwards; user_arg and sudo_user are --user and SUDO_USER as read at
\* line 219, user the user handed to ApplicationWrapper::new; child_status
\* is the exit status in the Output of wait_with_output()
InitProc ==
    [pc |-> "idle", command |-> NoCommand, provider |-> NoneVal,
     server_name |-> <<>>, protocol |-> NoneVal, ns_name |-> <<>>,
     ns |-> "unset", target_subnet |-> 0, sysctl |-> -1,
     steps |-> <<>>, err |-> NoneVal, dead_at_start |-> {},
     synced |-> 0, assets |-> NoneVal,
     user_arg |-> NoneVal, sudo_user |-> NoneVal, user |-> NoneVal,
     child_status |-> {}]

Init ==
    /\ proc = [p \in Procs |-> InitProc]
    /\ netns = {}
    /\ res = {}
    /\ subnets = {}
    /\ locks = {}
    /\ ipfwd \in {0, 1}
    /\ kills = 0
    /\ call = NoCall

\* a pid is alive from the start of main() until the process returns or is killed
Alive(p) == proc[p].pc \notin {"idle", "done", "failed", "panicked", "killed"}

owner_count(n) == Cardinality({l \in locks : l[1] = n})

(***************************************************************************)
(* The collaborators of exec(): util, netns, sysctl.                       *)
(***************************************************************************)
\* util::get_existing_namespaces: the kernel namespaces ("Better to check
\* for lockfile exists?", main.rs:157, says it is not the lock registry)
get_existing_namespaces == netns

\* lowest third octet of 10.200.0.0/16 no existing namespace is assigned
MaxOctet == 255

get_target_subnet ==
    CHOOSE o \in 1..MaxOctet :
        /\ \A a \in subnets : a[2] # o
        /\ \A o2 \in 1..(o - 1) : \E a \in subnets : a[2] = o2

\* everything scoped to namespace n is released and the netns destroyed
TornDown(S, n) == {x \in S : x[1] # n}

\* LockRegistry.gc(), first half: lockfiles whose pid is not alive go
LiveLocks == {l \in locks : Alive(l[2])}

\* LockRegistry.gc(), second half: namespaces that no lockfile claims
Unclaimed == {n \in netns : owner_count(n) = 0}

\* the scope of exec() ends and its locals are dropped.  A NetworkNamespace
\* this invocation created and never locked (a failed setup) releases what
\* was constructed and destroys the netns; one that was attached or locked
\* removes this pid's lockfile and tears the namespace down if no lockfile
\* is left.  The SysCtl guard in `_sysctl` restores the value it read.
DropLocals(p) ==
    LET n == proc[p].ns_name
        held == proc[p].ns # "unset"
        left == IF held THEN locks \ {<<n, p>>} ELSE locks
        last == \/ proc[p].ns = "created"
                \/ held /\ {l \in left : l[1] = n} = {}
    IN  /\ locks' = left
        /\ netns' = IF last THEN netns \ {n} ELSE netns
        /\ res' = IF last THEN TornDown(res, n) ELSE res
        /\ subnets' = IF last THEN TornDown(subnets, n) ELSE subnets
        /\ ipfwd' = IF proc[p].sysctl # -1 THEN proc[p].sysctl ELSE ipfwd

(***************************************************************************)
(* main() and exec(), one action per step that reads or writes the state   *)
(* shared between invocations.                                             *)
(***************************************************************************)
Goto(p, label) == proc' = [proc EXCEPT ![p].pc = label]

\* a plausible slip: the process ends without running the destructors
ReturnLeak(p, label, e) ==
    /\ proc' = [proc EXCEPT ![p].pc = label, ![p].err = e]
    /\ UNCHANGED <<netns, res, subnets, locks, ipfwd, kills, call>>

\* exec() returns, by `?`, `return Err`, bail! or the final Ok(()): the
\* locals are dropped.  status is the exit status of the application when
\* wait_with_output() has returned it
ReturnWith(p, label, e, status) ==
    /\ proc' = [proc EXCEPT ![p].pc = label, ![p].err = e,
                            ![p].ns = "unset", ![p].sysctl = -1,
                            ![p].synced = 0, ![p].assets = NoneVal,
                            ![p].user_arg = NoneVal, ![p].sudo_user = NoneVal,
                            ![p].user = NoneVal, ![p].child_status = status]
    /\ DropLocals(p)
    /\ UNCHANGED <<kills, call>>

Return(p, label, e) == ReturnWith(p, label, e, {})

\* main(): the command line is parsed
Start(p) ==
    /\ proc[p].pc = "idle"
    /\ \E c \in Commands :
          proc' = [proc EXCEPT ![p].pc = "main", ![p].command = c,
                               ![p].dead_at_start = {q \in Procs : proc[q].pc = "killed"}]
    /\ UNCHANGED <<netns, res, subnets, locks, ipfwd, kills, call>>

\* a plausible slip: the lockfiles of live pids are removed too
MainCleanAllLocks(p) ==
    /\ proc[p].pc = "main"
    /\ locks' = {}
    /\ Goto(p, IF proc[p].command.cmd = "exec" THEN "elevate" ELSE "list")
    /\ UNCHANGED <<netns, res, subnets, ipfwd, kills, call>>

\* main(), lines 60 and 75: clean_dead_locks()
MainCleanDeadLocks(p) ==
    /\ proc[p].pc = "main"
    /\ locks' = LiveLocks
    /\ Goto(p, IF proc[p].command.cmd = "exec" THEN "elevate" ELSE "list")
    /\ UNCHANGED <<netns, res, subnets, ipfwd, kills, call>>

\* main(), lines 62-64: elevate_privileges(), clean_dead_namespaces()
MainCleanDeadNamespaces(p) ==
    /\ proc[p].pc = "elevate"
    /\ \/ /\ proc' = [proc EXCEPT ![p].pc = "failed", ![p].err = "Privilege"]
          /\ UNCHANGED <<netns, res, subnets, locks, ipfwd, kills, call>>
       \/ /\ netns' = netns \ Unclaimed
          /\ res' = {r \in res : r[1] \notin Unclaimed}
          /\ subnets' = {a \in subnets : a[1] \notin Unclaimed}
          /\ Goto(p, "resolve")
          /\ UNCHANGED <<locks, ipfwd, kills, call>>

\* main(), line 76: output_list()
MainOutputList(p) ==
    /\ proc[p].pc = "list"
    /\ Goto(p, "done")
    /\ UNCHANGED <<netns, res, subnets, locks, ipfwd, kills, call>>

\* exec(), lines 87-119: provider, server name and protocol
ExecResolveArgs(p) ==
    /\ proc[p].pc = "resolve"
    /\ LET r == ExecResolve(proc[p].command)
       IN  IF r.ok
           THEN proc' = [proc EXCEPT ![p].pc = "config",
                                     ![p].provider = r.val.provider,
                                     ![p].server_name = r.val.server_name,
                                     ![p].protocol = r.val.protocol]
           ELSE proc' = [proc EXCEPT
                           ![p].pc = IF r.val = "Panic" THEN "panicked" ELSE "failed",
                           ![p].err = r.val]
    /\ UNCHANGED <<netns, res, subnets, locks, ipfwd, kills, call>>

\* what exec() can find at <config-dir>/vopono/<alias>/<protocol>
CdirStates == {"missing", "empty", "nonempty"}

\* lines 121 and 129: provider != Custom, and the directory does not exist
\* or has no entry
needs_sync(provider, cdir) ==
    provider # "Custom" /\ cdir \in {"missing", "empty"}

\* exec(), lines 120-156: the provider's config files (synch() when they are
\* missing, with no second look at the directory), the namespace name, the
\* network interface
ExecPrepare(p) ==
    /\ proc[p].pc = "config"
    /\ \/ \E e \in {"ConfigDir", "NoInterface"} : Return(p, "failed", e)
       \/ \E cdir \in CdirStates :
             IF needs_sync(proc[p].provider, cdir)
             THEN \/ Return(p, "failed", "Sync")
                  \/ /\ \E after \in {"present", "absent"} :
                           proc' = [proc EXCEPT
                              ![p].pc = "check", ![p].synced = 1,
                              ![p].assets = after,
                              ![p].ns_name = ns_name_of(proc[p].provider,
                                                        proc[p].server_name)]
                     /\ UNCHANGED <<netns, res, subnets, locks, ipfwd, kills, call>>
             ELSE /\ proc' = [proc EXCEPT
                              ![p].pc = "check",
                              ![p].assets = IF proc[p].provider = "Custom"
                                            THEN NoneVal ELSE "present",
                              ![p].ns_name = ns_name_of(proc[p].provider,
                                                        proc[p].server_name)]
                  /\ UNCHANGED <<netns, res, subnets, locks, ipfwd, kills, call>>

\* exec(), line 158: get_existing_namespaces()?.contains(&ns_name)
ExecCheckExisting(p) ==
    /\ proc[p].pc = "check"
    /\ Goto(p, IF proc[p].ns_name \in get_existing_namespaces THEN "attach" ELSE "create")
    /\ UNCHANGED <<netns, res, subnets, locks, ipfwd, kills, call>>

\* exec(), line 160: NetworkNamespace::from_existing reads a lockfile of the
\* namespace
ExecAttach(p) ==
    /\ proc[p].pc = "attach"
    /\ IF owner_count(proc[p].ns_name) = 0
       THEN Return(p, "failed", "NoLockfile")
       ELSE /\ proc' = [proc EXCEPT ![p].pc = "lockfile", ![p].ns = "attached",
                                  ![p].synced = 0, ![p].assets = NoneVal]
            /\ UNCHANGED <<netns, res, subnets, locks, ipfwd, kills, call>>

\* exec(), line 162: NetworkNamespace::new creates the kernel namespace
ExecCreate(p) ==
    /\ proc[p].pc = "create"
    /\ IF proc[p].ns_name \in netns
       THEN Return(p, "failed", "AlreadyExists")
       ELSE \/ Return(p, "failed", "NetnsAdd")
            \/ /\ netns' = netns \cup {proc[p].ns_name}
               /\ proc' = [proc EXCEPT ![p].pc = "subnet", ![p].ns = "created",
                                        ![p].synced = 0, ![p].assets = NoneVal]
               /\ UNCHANGED <<res, subnets, locks, ipfwd, kills, call>>

\* exec(), line 163: get_target_subnet()
ExecGetSubnet(p) ==
    /\ proc[p].pc = "subnet"
    /\ \/ Return(p, "failed", "Subnet")
       \/ /\ proc' = [proc EXCEPT ![p].pc = "setup",
                                  ![p].target_subnet = get_target_subnet]
          /\ UNCHANGED <<netns, res, subnets, locks, ipfwd, kills, call>>

\* a plausible slip: the tunnel is started before the iptables rules
SetupCallsTunnelFirst(protocol, custom_config) ==
    IF protocol = "OpenVpn"
    THEN (IF custom_config = NoSeq THEN <<"get_auth">> ELSE <<>>)
         \o <<"loopback", "veth", "routing", "sysctl", "dns", "tunnel",
              "iptables", "check_running">>
    ELSE (IF custom_config = NoSeq THEN <<"get_config">> ELSE <<>>)
         \o <<"loopback", "veth", "routing", "sysctl", "tunnel", "iptables">>

\* exec(), lines 164-211: the calls of each arm of `match protocol`, in order
SetupCalls(protocol, custom_config) ==
    IF protocol = "OpenVpn"
    THEN (IF custom_config = NoSeq THEN <<"get_auth">> ELSE <<>>)
         \o <<"loopback", "veth", "routing", "iptables", "sysctl", "dns",
              "tunnel", "check_running">>
    ELSE (IF custom_config = NoSeq THEN <<"get_config">> ELSE <<>>)
         \o <<"loopback", "veth", "routing", "iptables", "sysctl", "tunnel">>

\* the calls an invocation still has to make, and the next of them
Calls(p) == SetupCalls(proc[p].protocol, proc[p].command.custom_config)

NextCall(p) == Calls(p)[Len(proc[p].steps) + 1]

\* a plausible slip: an error path that skips the destructors
SetupFailureLeak(p, e) == ReturnLeak(p, "failed", e)

\* a setup call fails and `?` (or `return Err`, line 193) ends exec()
SetupFailure(p, e) == Return(p, "failed", e)

\* exec(), lines 166-209: one setup call.  steps records the calls made
ExecSetupStep(p) ==
    /\ proc[p].pc = "setup"
    /\ LET c == NextCall(p)
           n == proc[p].ns_name
           done == [proc EXCEPT
                      ![p].steps = Append(@, c),
                      ![p].pc = IF Len(proc[p].steps) + 1 = Len(Calls(p))
                                THEN "lockfile" ELSE "setup"]
       IN  CASE c \in {"get_auth", "get_config"} ->
                  \/ SetupFailure(p, c)
                  \/ /\ proc' = done
                     /\ UNCHANGED <<netns, res, subnets, locks, ipfwd, kills, call>>
             [] c \in {"loopback", "veth", "iptables", "dns", "tunnel"} ->
                  \/ SetupFailure(p, c)
                  \/ /\ n \in netns
                     /\ res' = res \cup {<<n, c>>}
                     /\ proc' = done
                     /\ UNCHANGED <<netns, subnets, locks, ipfwd, kills, call>>
             [] c = "routing" ->
                  \/ SetupFailure(p, c)
                  \/ /\ n \in netns
                     /\ res' = res \cup {<<n, c>>}
                     /\ subnets' = subnets \cup {<<n, proc[p].target_subnet>>}
                     /\ proc' = done
                     /\ UNCHANGED <<netns, locks, ipfwd, kills, call>>
             [] c = "sysctl" ->
                  /\ ipfwd' = 1
                  /\ proc' = [done EXCEPT ![p].sysctl = ipfwd]
                  /\ UNCHANGED <<netns, res, subnets, locks, kills, call>>
             [] c = "check_running" ->
                  IF <<n, "tunnel">> \in res
                  THEN \/ SetupFailure(p, c)
                       \/ /\ proc' = done
                          /\ UNCHANGED <<netns, res, subnets, locks, ipfwd, kills, call>>
                  ELSE SetupFailure(p, c)

\* a plausible slip: the lockfile is not written before the application is
\* spawned
ExecWriteLockfile_NoWrite(p) ==
    /\ proc[p].pc = "lockfile"
    /\ proc' = [proc EXCEPT ![p].pc = "spawn", ![p].ns = "locked"]
    /\ UNCHANGED <<netns, res, subnets, locks, ipfwd, kills, call>>

\* exec(), lines 214-216: get_username(), get_group(), write_lockfile()
ExecWriteLockfile(p) ==
    /\ proc[p].pc = "lockfile"
    /\ \/ Return(p, "failed", "User")
       \/ /\ locks' = locks \cup {<<proc[p].ns_name, p>>}
          /\ proc' = [proc EXCEPT ![p].pc = "spawn", ![p].ns = "locked"]
          /\ UNCHANGED <<netns, res, subnets, ipfwd, kills, call>>

\* the values of --user and of SUDO_USER
UserArgs == {NoneVal, "alice"}

SudoUsers == {NoneVal, "bob"}

\* a plausible slip: SUDO_USER is preferred to --user
application_user_SudoFirst(user_arg, sudo_user) ==
    IF sudo_user # NoneVal THEN sudo_user ELSE user_arg

\* lines 219-223: the user for the application; None "will use root"
application_user(user_arg, sudo_user) ==
    IF user_arg = NoneVal THEN sudo_user ELSE user_arg

\* exec(), lines 218-225: ApplicationWrapper::new spawns the application
\* inside the namespace as `user`, as root when user is None
ExecSpawn(p) ==
    /\ proc[p].pc = "spawn"
    /\ \/ Return(p, "failed", "ChildSpawn")
       \/ /\ proc[p].ns_name \in netns
          /\ \E user_arg \in UserArgs, sudo_user \in SudoUsers :
                proc' = [proc EXCEPT
                           ![p].pc = "running",
                           ![p].user_arg = user_arg,
                           ![p].sudo_user = sudo_user,
                           ![p].user = application_user(user_arg, sudo_user)]
          /\ UNCHANGED <<netns, res, subnets, locks, ipfwd, kills, call>>

\* a plausible slip: the process ends without dropping `ns`
ExecFinishLeak(p, label, e, status) == ReturnLeak(p, label, e)

\* exec(), lines 226-230: the application has exited; its output is written
\* and exec returns Ok(()) without looking at output.status
ExecFinish(p, label, e, status) == ReturnWith(p, label, e, status)

\* the exit statuses of the application
ChildStatuses == {0, 3}

ExecWait(p) ==
    /\ proc[p].pc = "running"
    /\ \/ \E status \in ChildStatuses : ExecFinish(p, "done", NoneVal, {status})
       \/ ExecFinish(p, "failed", "Io", {})

\* main(), lines 44 and 83: the exit code of the process, from the Result
\* that main() returns (Ok: 0, Err: 1) or from a panic (101)
exit_code(p) ==
    CASE proc[p].pc = "done" -> 0
      [] proc[p].pc = "failed" -> 1
      [] proc[p].pc = "panicked" -> 101

\* SIGKILL: the process ends where it is, no destructor runs
Kill(p) ==
    /\ Alive(p)
    /\ proc[p].ns # "unset"
    /\ kills < MaxKills
    /\ kills' = kills + 1
    /\ Goto(p, "killed")
    /\ UNCHANGED <<netns, res, subnets, locks, ipfwd, call>>

Next ==
    \E p \in Procs :
        \/ Start(p)
        \/ MainCleanDeadLocks(p)
        \/ MainCleanDeadNamespaces(p)
        \/ MainOutputList(p)
        \/ ExecResolveArgs(p)
        \/ ExecPrepare(p)
        \/ ExecCheckExisting(p)
        \/ ExecAttach(p)
        \/ ExecCreate(p)
        \/ ExecGetSubnet(p)
        \/ ExecSetupStep(p)
        \/ ExecWriteLockfile(p)
        \/ ExecSpawn(p)
        \/ ExecWait(p)
        \/ Kill(p)

Spec == Init /\ [][Next]_vars

(***************************************************************************)
(* The pure functions on their own: SpecFn calls them on every input of    *)
(* the bounded input sets and records the call.                            *)
(***************************************************************************)
\* longest file name tried
MaxNameLen == 4

FileChars == {"a", "-", " ", "."}

FileNames == UNION {[1..k -> FileChars] : k \in 1..MaxNameLen}

FnCommands ==
    ExecCommands
    \cup [cmd : {"exec"}, custom_config : FileNames, vpn_provider : {NoneVal},
          server : {NoSeq}, protocol : Protocol \cup {NoneVal}]

FnGetProtocol ==
    /\ call = NoCall
    /\ \E provider \in VpnProvider, protocol \in Protocol \cup {NoneVal} :
          call' = [fn |-> "get_protocol", provider |-> provider,
                   protocol |-> protocol, out |-> get_protocol(provider, protocol)]
    /\ UNCHANGED <<proc, netns, res, subnets, locks, ipfwd, kills>>

FnExecResolve ==
    /\ call = NoCall
    /\ \E c \in FnCommands :
          call' = [fn |-> "exec_resolve", command |-> c, out |-> ExecResolve(c)]
    /\ UNCHANGED <<proc, netns, res, subnets, locks, ipfwd, kills>>

\* the server lists tried: up to MaxListLen entries of ServerEntries
MaxListLen == 2

ServerEntries ==
    {[name |-> <<"u", "s", "_", "e">>, alias |-> <<"u", "s">>, host |-> "h1",
      port |-> {443}, protocol |-> {"TCP"}],
     [name |-> <<"u", "k">>, alias |-> <<"g", "b">>, host |-> "h2",
      port |-> {}, protocol |-> {}],
     [name |-> <<"s", "e", "-", "x">>, alias |-> <<"s", "e">>, host |-> "h3",
      port |-> {80}, protocol |-> {}]}

ServerLists == UNION {[1..k -> ServerEntries] : k \in 0..MaxListLen}

\* the aliases tried: up to MaxAliasLen characters of AliasChars
MaxAliasLen == 3

AliasChars == {"u", "U", "s", "S", "-", "_", "g"}

Aliases == UNION {[1..k -> AliasChars] : k \in 0..MaxAliasLen}

FnFindHost ==
    /\ call = NoCall
    /\ \E a \in Aliases, l \in ServerLists :
          \E out \in find_host_from_alias(a, l) :
              call' = [fn |-> "find_host_from_alias", alias |-> a,
                       serverlist |-> l, out |-> out]
    /\ UNCHANGED <<proc, netns, res, subnets, locks, ipfwd, kills>>

NextFn == FnGetProtocol \/ FnExecResolve \/ FnFindHost

SpecFn == Init /\ [][NextFn]_vars

(***************************************************************************)
(* get_auth on its own: SpecAuth starts from an auth file (or none) of one *)
(* provider and calls get_auth up to MaxCalls times; call holds the file   *)
(* and the last call.                                                      *)
(***************************************************************************)
\* number of get_auth calls in a row
MaxCalls == 2

\* most digits in an answer to the username prompt
MaxDigits == 17

DigitRun(k) == [i \in 1..k |-> IF i % 2 = 1 THEN "1" ELSE "2"]

Separators == {<<>>, <<" ">>, <<"-">>, <<"a">>}

\* the answers tried: no digit, or nearly AccountLen up to MaxDigits digits,
\* with a separator at the start, in the middle or at the end
Answers ==
    {DigitRun(t[2]) \o t[3] \o DigitRun(t[1] - t[2]) :
        t \in {t \in ({0} \cup ((AccountLen - 2)..MaxDigits))
                       \X (0..MaxDigits) \X Separators :
                  t[2] \in {0, AccountLen \div 2, t[1]} /\ t[2] <= t[1]}}

Passwords == {<<>>, <<"p">>}

\* no file, an empty file, one line, two lines with and without the last
\* newline, two empty lines
InitialFiles ==
    {{}, {<<>>}, {<<"u">>}, {<<"u", "\n">>}, {<<"u", "\n", "p", "\n">>},
     {<<"u", "\n", "p">>}, {<<"\n", "\n">>}}

InitAuth ==
    /\ proc = [p \in Procs |-> InitProc]
    /\ netns = {}
    /\ res = {}
    /\ subnets = {}
    /\ locks = {}
    /\ ipfwd \in {0, 1}
    /\ kills = 0
    /\ \E provider \in VpnProvider, file \in InitialFiles :
          call = [fn |-> "auth_file", provider |-> provider, file |-> file,
                  before |-> file, answer |-> <<>>, out |-> Ok(NoneVal),
                  prompts |-> 0, calls |-> 0, after_write |-> FALSE]

FnGetAuth ==
    /\ call.calls < MaxCalls
    /\ \E answer \in IF call.file = {} THEN Answers ELSE {<<>>},
          password \in IF call.file = {} /\ call.provider # "Mullvad"
                       THEN Passwords ELSE {<<>>},
          io \in IF call.file = {} THEN {"ok", "prompt_err", "create_err"} ELSE {"ok"} :
          LET r == get_auth(call.provider, call.file, answer, password, io)
          IN  call' = [fn |-> "get_auth", provider |-> call.provider,
                       file |-> r.file, before |-> call.file, answer |-> answer,
                       out |-> r.out, prompts |-> r.prompts,
                       calls |-> call.calls + 1,
                       after_write |-> /\ call.fn = "get_auth"
                                       /\ call.out.ok
                                       /\ call.prompts > 0]
    /\ UNCHANGED <<proc, netns, res, subnets, locks, ipfwd, kills>>

NextAuth == FnGetAuth

SpecAuth == InitAuth /\ [][NextAuth]_vars

(***************************************************************************)
(* C9.  The protocol-resolution table of the specification, row by row.    *)
(***************************************************************************)
ProtocolTable ==
    {<<"Mullvad", NoneVal, Ok("Wireguard")>>,
     <<"Mullvad", "OpenVpn", Ok("OpenVpn")>>,
     <<"Mullvad", "Wireguard", Ok("Wireguard")>>,
     <<"TigerVpn", NoneVal, Ok("OpenVpn")>>,
     <<"TigerVpn", "OpenVpn", Ok("OpenVpn")>>,
     <<"TigerVpn", "Wireguard", Err("Unsupported")>>,
     <<"PrivateInternetAccess", NoneVal, Ok("OpenVpn")>>,
     <<"PrivateInternetAccess", "OpenVpn", Ok("OpenVpn")>>,
     <<"PrivateInternetAccess", "Wireguard", Err("Unsupported")>>,
     <<"Custom", NoneVal, Ok("Wireguard")>>,
     <<"Custom", "OpenVpn", Ok("OpenVpn")>>,
     <<"Custom", "Wireguard", Ok("Wireguard")>>}

\* C9: every call get_protocol(provider, requested) returns the result the
\* protocol-resolution table gives for (provider, requested): the protocol
\* of the row, or an error for TigerVpn and PIA with Wireguard.
C9_GetProtocolTable ==
    call.fn = "get_protocol" =>
        <<call.provider, call.protocol, call.out>> \in ProtocolTable

\* get_protocol has rejected PIA with Wireguard
C9_Witness ==
    /\ call.fn = "get_protocol"
    /\ call.provider = "PrivateInternetAccess"
    /\ call.protocol = "Wireguard"
    /\ ~call.out.ok

(***************************************************************************)
(* C10.  Argument and protocol validation.                                 *)
(***************************************************************************)
\* the command lines the claim names: an unsupported provider/protocol
\* pair, a custom config without a protocol, provider Custom without a config
InvalidCommand(c) ==
    /\ c.cmd = "exec"
    /\ \/ /\ c.custom_config = NoSeq
          /\ c.vpn_provider \in {"PrivateInternetAccess", "TigerVpn"}
          /\ c.protocol = "Wireguard"
       \/ /\ c.custom_config # NoSeq
          /\ c.protocol = NoneVal
       \/ /\ c.custom_config = NoSeq
          /\ c.vpn_provider = "Custom"

\* C10: an exec whose arguments fail validation never gets past the
\* validation: it creates or attaches no namespace, runs no setup call,
\* writes no lockfile, spawns no application, and ends with the validation's
\* error (or the privilege error of main() before it, or the panic of a
\* missing --server).
C10_InvalidArgsNoEffect ==
    \A p \in Procs :
        InvalidCommand(proc[p].command) =>
            /\ proc[p].pc \in {"main", "elevate", "resolve", "failed", "panicked"}
            /\ proc[p].ns = "unset"
            /\ proc[p].steps = <<>>
            /\ proc[p].sysctl = -1
            /\ \A l \in locks : l[2] # p
            /\ proc[p].pc = "failed" =>
                  proc[p].err \in {"Privilege", "Unsupported", "ArgNoProtocol", "ArgNoConfig"}

\* PIA with Wireguard was refused while another invocation holds a namespace
C10_Witness ==
    \E p, q \in Procs :
        /\ proc[p].pc = "failed"
        /\ proc[p].err = "Unsupported"
        /\ proc[p].command.vpn_provider = "PrivateInternetAccess"
        /\ proc[q].pc = "running"

(***************************************************************************)
(* C2.  The order of the setup calls.                                      *)
(***************************************************************************)
IsPrefix(s, t) == Len(s) <= Len(t) /\ SubSeq(t, 1, Len(s)) = s

Range(s) == {s[i] : i \in 1..Len(s)}

IsGuardStep(c) == c \in Range(SetupOrder)

\* the setup calls an invocation has completed, without get_auth,
\* get_config_from_alias and check_openvpn_running
GuardSteps(p) == SelectSeq(proc[p].steps, IsGuardStep)

IsNotDns(c) == c # "dns"

WireguardOrder == SelectSeq(SetupOrder, IsNotDns)

\* C2 as claimed: the completed setup calls of every invocation, OpenVPN or
\* WireGuard, are an initial part of loopback, veth, routing, iptables,
\* sysctl, dns, tunnel.
C2_Original == \A p \in Procs : IsPrefix(GuardSteps(p), SetupOrder)

\* C2 as amended: the completed setup calls are an initial part of
\* loopback, veth, routing, iptables, sysctl, dns, tunnel for OpenVPN and of
\* loopback, veth, routing, iptables, sysctl, tunnel for WireGuard (exec
\* makes no dns call on that arm), so the tunnel call is made only after the
\* routing and iptables calls have returned Ok.
C2_SetupOrder ==
    \A p \in Procs :
        /\ IF proc[p].protocol = "Wireguard"
           THEN IsPrefix(GuardSteps(p), WireguardOrder)
           ELSE IsPrefix(GuardSteps(p), SetupOrder)
        /\ "tunnel" \in Range(proc[p].steps) =>
              {"loopback", "veth", "routing", "iptables", "sysctl"}
                  \subseteq Range(proc[p].steps)

\* a WireGuard and an OpenVPN invocation have both started their tunnels
C2_Witness ==
    \E p, q \in Procs :
        /\ proc[p].protocol = "Wireguard"
        /\ "tunnel" \in Range(proc[p].steps)
        /\ proc[q].protocol = "OpenVpn"
        /\ "tunnel" \in Range(proc[q].steps)

(***************************************************************************)
(* C1.  Concurrent invocations that target the same namespace.             *)
(***************************************************************************)
\* the invocation is between NetworkNamespace::new and write_lockfile
InSetup(p) == Alive(p) /\ proc[p].ns = "created"

\* C1 as claimed: of the invocations that target one namespace exactly one
\* performs the setup (no two are in setup of the same namespace), and all
\* of them attach: none is turned away because the namespace appeared or
\* vanished between its existence check and its create or attach.
C1_OneSetupAllAttach ==
    /\ \A p, q \in Procs :
          (p # q /\ InSetup(p) /\ InSetup(q)) => proc[p].ns_name # proc[q].ns_name
    /\ \A p \in Procs : proc[p].err \notin {"AlreadyExists", "NoLockfile"}

(***************************************************************************)
(* C8.  Target subnets.                                                    *)
(***************************************************************************)
\* C8 as claimed: no two namespaces that exist at the same time are
\* assigned the same third octet of 10.200.0.0/16.
C8_NoSharedSubnet ==
    \A a, b \in subnets :
        (a[1] # b[1] /\ a[1] \in netns /\ b[1] \in netns) => a[2] # b[2]

(***************************************************************************)
(* C3.  A setup that fails.                                                *)
(***************************************************************************)
HasResidue(n) ==
    \/ n \in netns
    \/ \E r \in res : r[1] = n
    \/ \E a \in subnets : a[1] = n

\* C3: when a setup call of exec (get_auth, loopback, veth, routing,
\* iptables, dns, tunnel, check_openvpn_running) fails, the invocation ends
\* with that call's error, and at its return it has no lockfile and its
\* namespace has no kernel netns, no guard (veth, routing, iptables, dns,
\* tunnel) and no subnet left.
C3_FailedSetupNoResidual ==
    [][\A p \in Procs :
          (proc[p].pc = "setup" /\ proc'[p].pc = "failed") =>
              /\ proc'[p].err = NextCall(p)
              /\ \A l \in locks' : l[2] # p
              /\ ~HasResidue(proc[p].ns_name)']_vars

\* the OpenVPN-running check has failed after the whole setup, and nothing
\* of the namespace is left
C3_Witness ==
    \E p \in Procs :
        /\ proc[p].pc = "failed"
        /\ proc[p].err = "check_running"
        /\ Len(proc[p].steps) >= 7
        /\ ~HasResidue(proc[p].ns_name)

(***************************************************************************)
(* C4.  A successful exec.                                                 *)
(***************************************************************************)
\* C4: when the application of a successful exec has exited and
\* exec returns, no lockfile of its pid is left; if no lockfile of the
\* namespace is left either, the netns, the guards and the subnet are
\* gone; if other lockfiles are left, namespace, guards and tunnel are as
\* they were.
C4_ExitResidual ==
    [][\A p \in Procs :
          (proc[p].pc = "running" /\ proc'[p].pc = "done") =>
              LET n == proc[p].ns_name
              IN  /\ \A l \in locks' : l[2] # p
                  /\ IF \A l \in locks' : l[1] # n
                     THEN ~HasResidue(n)'
                     ELSE /\ netns' = netns
                          /\ res' = res
                          /\ subnets' = subnets]_vars

\* one invocation has detached and returned while another, attached to the
\* same namespace, still runs its application with the tunnel up
C4_Witness ==
    \E p, q \in Procs :
        /\ proc[p].pc = "done"
        /\ proc[p].command.cmd = "exec"
        /\ proc[q].pc = "running"
        /\ proc[q].ns_name = proc[p].ns_name
        /\ proc[q].ns_name \in netns
        /\ <<proc[q].ns_name, "tunnel">> \in res
        /\ \A l \in locks : l[2] # p

(***************************************************************************)
(* C6.  Lockfiles and kernel namespaces.                                   *)
(***************************************************************************)
\* the namespaces that have a kernel netns or a lockfile
Names == netns \cup {l[1] : l \in locks}

LockWritten(p) ==
    /\ <<proc[p].ns_name, p>> \notin locks
    /\ <<proc[p].ns_name, p>> \in locks'

\* this step deletes the lockfile of invocation p
LockDeleted(p) ==
    /\ <<proc[p].ns_name, p>> \in locks
    /\ <<proc[p].ns_name, p>> \notin locks'

\* the lockfile is written only once every setup call, the tunnel included,
\* has succeeded, or an existing namespace was attached; the application is
\* spawned only when this invocation's lockfile is there
WrittenAfterSetupSpawnedAfterLock(p) ==
    /\ LockWritten(p) =>
          \/ proc[p].ns = "attached"
          \/ /\ proc[p].ns = "created"
             /\ proc[p].steps = Calls(p)
             /\ "tunnel" \in Range(proc[p].steps)
    /\ (proc[p].pc # "running" /\ proc'[p].pc = "running") =>
          <<proc[p].ns_name, p>> \in locks

GcLocksStep(p) == proc[p].pc = "main" /\ proc'[p].pc \in {"elevate", "list"}

\* main(), line 64: invocation p runs clean_dead_namespaces()
GcNamespacesStep(p) == proc[p].pc = "elevate" /\ proc'[p].pc = "resolve"

\* after the step the killed pid q has no lockfile, and its namespace, if no
\* lockfile claims it, has no netns, guard or subnet left
Recovered(q) ==
    /\ \A l \in locks' : l[2] # q
    /\ (\A l \in locks' : l[1] # proc[q].ns_name) => ~HasResidue(proc[q].ns_name)'

\* C7: when an invocation holding a lockfile was killed, the garbage
\* collection of the next exec or list invocation removes its lockfile and
\* tears down its namespace if no lockfile is left for it, leaving no netns,
\* guard or subnet, as a clean teardown does.
C7_GcRecovers ==
    [][\A p \in Procs : \A q \in proc[p].dead_at_start :
          /\ proc[q].ns = "locked"
          /\ (GcLocksStep(p) /\ proc'[p].pc = "list") \/ GcNamespacesStep(p)
          => Recovered(q)]_vars

(***************************************************************************)
(* C11.  find_host_from_alias returns an entry of the list that matches.   *)
(***************************************************************************)
\* the prefix match of the specification: the name, the alias, or the name
\* with underscores replaced by hyphens starts with the lowercased alias
PrefixMatch(a, x) ==
    LET lc == to_lowercase(a)
    IN  \/ starts_with(x.name, lc)
        \/ starts_with(x.alias, lc)
        \/ starts_with(replace_underscores(x.name), lc)

\* C11: a call find_host_from_alias(a, L) returns an error exactly when no
\* entry of L matches the lowercased a by name, alias or hyphenated name;
\* otherwise the host and alias returned are those of one entry of L that
\* matches.
C11_FindHostMatches ==
    call.fn = "find_host_from_alias" =>
        LET hits == {i \in 1..Len(call.serverlist) :
                        PrefixMatch(call.alias, call.serverlist[i])}
        IN  /\ ~call.out.ok <=> hits = {}
            /\ call.out.ok =>
                  \E i \in hits :
                      /\ call.serverlist[i].host = call.out.val.host
                      /\ call.serverlist[i].alias = call.out.val.alias

\* alias "US-" has found us_e, which only the hyphen rule matches, in a list
\* whose other entry does not match
C11_Witness ==
    /\ call.fn = "find_host_from_alias"
    /\ call.alias = <<"U", "S", "-">>
    /\ Len(call.serverlist) = 2
    /\ call.out.ok
    /\ call.out.val.host = "h1"

(***************************************************************************)
(* C18.  The defaults of a server entry without port or protocol.          *)
(***************************************************************************)
\* C18: the port returned by find_host_from_alias is the chosen entry's
\* port when it has one and 1194 when it has none, and the protocol is the
\* entry's protocol when it has one and UDP when it has none.
C18_PortProtocolDefaults ==
    (call.fn = "find_host_from_alias" /\ call.out.ok) =>
        \E i \in 1..Len(call.serverlist) :
            LET x == call.serverlist[i]
            IN  /\ PrefixMatch(call.alias, x)
                /\ x.host = call.out.val.host
                /\ x.alias = call.out.val.alias
                /\ IF x.port = {} THEN call.out.val.port = 1194
                   ELSE call.out.val.port \in x.port
                /\ IF x.protocol = {} THEN call.out.val.protocol = "UDP"
                   ELSE call.out.val.protocol \in x.protocol

\* an entry with port 80 and no protocol was chosen: port 80 and UDP
C18_Witness ==
    /\ call.fn = "find_host_from_alias"
    /\ call.out.ok
    /\ call.out.val.host = "h3"
    /\ call.out.val.port = 80
    /\ call.out.val.protocol = "UDP"

(***************************************************************************)
(* C17.  The namespace name of a custom config.                            *)
(***************************************************************************)
\* the file stem: the file name up to its last dot (the whole name when the
\* only dot is the first character or there is none)
LastDot(s) ==
    LET dots == {i \in 1..Len(s) : s[i] = "."}
    IN  IF dots = {} THEN 0 ELSE CHOOSE i \in dots : \A j \in dots : j <= i

Stem(s) == IF LastDot(s) <= 1 THEN s ELSE SubSeq(s, 1, LastDot(s) - 1)

\* the first 4 characters, or all of them when there are fewer
First4(s) == SubSeq(s, 1, IF Len(s) < 4 THEN Len(s) ELSE 4)

\* C17: for every custom config given with a protocol, stems shorter than 4
\* characters after sanitizing included, exec resolves provider Custom and
\* the server key that is the first 4 characters of the file stem with
\* spaces and hyphens removed, so that the namespace name is
\* vopono_cus_<server-key>.
C17_CustomServerKey ==
    (/\ call.fn = "exec_resolve"
     /\ call.command.custom_config # NoSeq
     /\ call.command.protocol # NoneVal) =>
        /\ call.out.ok
        /\ call.out.val.provider = "Custom"
        /\ call.out.val.server_name = First4(FilterChars(Stem(call.command.custom_config)))
        /\ ns_name_of(call.out.val.provider, call.out.val.server_name)
              = <<"vopono", "cus">> \o First4(FilterChars(Stem(call.command.custom_config)))

(***************************************************************************)
(* C15.  A malformed answer to the username prompt.                        *)
(***************************************************************************)
\* the decimal digits of an answer
DigitsOf(answer) == SelectSeq(answer, LAMBDA c : c \in DecimalDigits)

\* no stored credentials, provider Mullvad, and the answer does not have 16
\* digits
MalformedAnswer ==
    /\ call.fn = "get_auth"
    /\ call.before = {}
    /\ call.provider = "Mullvad"
    /\ Len(DigitsOf(call.answer)) # 16

\* C15 as claimed: get_auth fails for a malformed answer only after it has
\* prompted 3 times.
C15_Original ==
    (MalformedAnswer /\ ~call.out.ok) => call.prompts = 3

\* C15 as amended: when no stored credentials exist and the prompt returns a
\* malformed Mullvad account number, get_auth does not prompt again: it
\* fails after that one prompt, and no auth file is written; no call of
\* get_auth prompts for the username more than once.
C15_NoReprompt ==
    /\ call.fn = "get_auth" => call.prompts <= 1
    /\ MalformedAnswer =>
          /\ ~call.out.ok
          /\ call.out.val \in {"CredentialsInvalid", "Prompt"}
          /\ call.prompts = 1
          /\ call.file = {}

\* an account number of 15 digits was refused after one prompt, twice
C15_Witness ==
    /\ MalformedAnswer
    /\ Len(DigitsOf(call.answer)) = 15
    /\ call.out = Err("CredentialsInvalid")
    /\ call.prompts = 1
    /\ call.calls = 2

(***************************************************************************)
(* C16.  The auth file of Mullvad.                                         *)
(***************************************************************************)
\* the call wrote the auth file
WroteAuthFile == call.fn = "get_auth" /\ call.file # call.before

\* C16: whenever get_auth writes the auth file for Mullvad, the file has
\* exactly two lines, the first the 16 decimal digits that are left of the
\* answer when every other character is removed, the second the password m;
\* an answer whose digits do not number 16 produces no file.
C16_MullvadAuthFile ==
    /\ (WroteAuthFile /\ call.provider = "Mullvad") =>
          LET lines == Lines(CHOOSE c \in call.file : TRUE)
          IN  /\ Len(lines) = 2
              /\ Len(lines[1]) = 16
              /\ \A i \in 1..Len(lines[1]) : lines[1][i] \in DecimalDigits
              /\ lines[1] = DigitsOf(call.answer)
              /\ lines[2] = <<"m">>
    /\ MalformedAnswer => ~WroteAuthFile

\* an answer of 16 digits with a hyphen in the middle was written
C16_Witness ==
    /\ WroteAuthFile
    /\ call.provider = "Mullvad"
    /\ Len(call.answer) = 17
    /\ call.answer[9] = "-"
    /\ call.out.ok

(***************************************************************************)
(* C20.  get_auth with stored credentials.                                 *)
(***************************************************************************)
\* C20: when the auth file exists with at least two lines, get_auth returns
\* success without prompting and leaves the file unchanged; and a get_auth
\* call that follows one that prompted and wrote the file successfully
\* returns success without prompting and without changing the file.
C20_StoredCredentials ==
    call.fn = "get_auth" =>
        /\ (/\ call.before # {}
            /\ Len(Lines(CHOOSE c \in call.before : TRUE)) >= 2) =>
              /\ call.out.ok
              /\ call.prompts = 0
              /\ call.file = call.before
        /\ call.after_write =>
              /\ call.out.ok
              /\ call.prompts = 0
              /\ call.file = call.before

\* the second call after an empty username and an empty password were
\* written for TigerVpn
C20_Witness ==
    /\ call.fn = "get_auth"
    /\ call.after_write
    /\ call.provider = "TigerVpn"
    /\ call.file = {<<"\n", "\n">>}
    /\ call.out.ok
    /\ call.prompts = 0

(***************************************************************************)
(* C19.  The SysctlGuard and the last detach.                              *)
(***************************************************************************)
\* C19: net.ipv4.ip_forward stays enabled until the last detach: while an
\* invocation, also one that only attached to an existing namespace, has
\* its application running in a namespace, ip_forward has not been restored
\* to its prior value.
C19_SysctlHeldUntilLastDetach ==
    \A p \in Procs :
        (proc[p].pc = "running" /\ <<proc[p].ns_name, p>> \in locks) => ipfwd = 1

(***************************************************************************)
(* C12.  The user of the application.                                      *)
(***************************************************************************)
\* C12 as claimed: the application never runs without an unprivileged user:
\* when neither --user nor SUDO_USER is available exec refuses to spawn it
\* (no option of exec allows root).
C12_Original ==
    \A p \in Procs : proc[p].pc = "running" => proc[p].user # NoneVal

\* C12 as amended: the application is spawned as the user chosen in the
\* order explicit --user, then SUDO_USER; when neither is available exec
\* does not refuse: it spawns the application with no user, that is as root.
C12_UserOrder ==
    \A p \in Procs :
        proc[p].pc = "running" =>
            /\ proc[p].user_arg # NoneVal => proc[p].user = proc[p].user_arg
            /\ (proc[p].user_arg = NoneVal /\ proc[p].sudo_user # NoneVal) =>
                  proc[p].user = proc[p].sudo_user
            /\ (proc[p].user_arg = NoneVal /\ proc[p].sudo_user = NoneVal) =>
                  proc[p].user = NoneVal

\* one application runs as root, for want of --user and SUDO_USER, and
\* another as the --user given although SUDO_USER is set
C12_Witness ==
    \E p, q \in Procs :
        /\ proc[p].pc = "running"
        /\ proc[p].user_arg = NoneVal /\ proc[p].sudo_user = NoneVal
        /\ proc[p].user = NoneVal
        /\ proc[q].pc = "running"
        /\ proc[q].user_arg = "alice" /\ proc[q].sudo_user = "bob"
        /\ proc[q].user = "alice"

(***************************************************************************)
(* C13.  The exit code of exec.                                            *)
(***************************************************************************)
ArgumentErrors == {"ArgNoProtocol", "ArgNoConfig", "Unsupported"}

\* C13: the exit code of an exec invocation is the exit status of the
\* application when the application ran, 1 when the setup failed and 2 when
\* the arguments were invalid.
C13_ExitCodes ==
    \A p \in Procs :
        proc[p].command.cmd = "exec" =>
            /\ (proc[p].pc = "done" /\ proc[p].child_status # {}) =>
                  exit_code(p) \in proc[p].child_status
            /\ (proc[p].pc = "failed" /\ proc[p].steps # <<>>) => exit_code(p) = 1
            /\ (proc[p].pc = "failed" /\ proc[p].err \in ArgumentErrors) =>
                  exit_code(p) = 2

(***************************************************************************)
(* C14.  synch() and the provider's config directory.                      *)
(***************************************************************************)
\* C14: exec calls synch() at most once, never for provider Custom, and
\* before any namespace is created; an invocation whose assets are absent
\* after that creates no namespace.
C14_SyncThenFatal ==
    [][\A p \in Procs :
          /\ proc'[p].synced <= 1
          /\ proc'[p].provider = "Custom" => proc'[p].synced = 0
          /\ proc'[p].synced > proc[p].synced => proc[p].ns = "unset"
          /\ (proc[p].pc = "create" /\ proc'[p].pc = "subnet") =>
                proc[p].assets # "absent"]_vars

====
